---- MODULE Spec2Model ----
(***************************************************************************)
(* Mast: the tokenizer (tokenizer.go) and the table-driven recursive       *)
(* descent parser (parser.go).  Strings are sequences of runes, a rune is  *)
(* a one-character string, a token is a string, and the end-of-input       *)
(* marker is the empty string <<>>.                                        *)
(***************************************************************************)
EXTENDS Integers, Sequences, FiniteSets, TLC

VARIABLES
    p,        \* the Parser value handed to the entry point
    backing,  \* the backing array of p.Parens (len(p.Parens) may be below its capacity)
    source,   \* the source text
    args,     \* the arguments of Eval after the code (matrices behind pointers)
    pc,       \* "ready" before the call, "done" after it
    out       \* what the call returned

vars == <<p, backing, source, args, pc, out>>

----------------------------------------------------------------------------
(* Runes and the unicode predicates, over the runes the model draws from.  *)

VT == "VT"

UpperRunes == {"A", "B"}
LowerRunes == {"a", "b", "c", "x"}
DigitRunes == {"1", "2"}

IsUpper(r) == r \in UpperRunes
IsLetter(r) == r \in UpperRunes \cup LowerRunes
IsDigit(r) == r \in DigitRunes

isWsp(r) == r = " " \/ r = "\t" \/ r = VT

\* tokenPreds, by name, in the order they are tried
tokenPreds == <<"IsUpper", "IsLetter", "IsDigit", "isWsp">>

\* pred(c) for the predicate called name
runePred(name, c) ==
    CASE name = "IsUpper" -> IsUpper(c)
      [] name = "IsLetter" -> IsLetter(c)
      [] name = "IsDigit" -> IsDigit(c)
      [] name = "isWsp" -> isWsp(c)
      [] OTHER -> FALSE

NilPred == "nil"

\* the first predicate of tokenPreds from index i on that c satisfies (0: none)
RECURSIVE firstPred(_, _)
firstPred(c, i) ==
    IF i > Len(tokenPreds) THEN 0
    ELSE IF runePred(tokenPreds[i], c) THEN i
    ELSE firstPred(c, i + 1)

\* st after the inner loop when an upper-case letter starts a run like
\* every other class
nextStUpperRuns(c) ==
    LET i == firstPred(c, 1) IN
    IF i = 0 THEN NilPred ELSE tokenPreds[i]

\* the state st after the inner loop over tokenPreds: nil for an upper-case
\* letter (i == 0) and for a rune no predicate matches
nextSt(c) ==
    LET i == firstPred(c, 1) IN
    IF i = 0 THEN NilPred
    ELSE IF i = 1 THEN NilPred
    ELSE tokenPreds[i]

\* one iteration of the loop over the runes of code
tokenizeStep(s, c) ==
    IF s.st # NilPred /\ runePred(s.st, c)
    THEN [s EXCEPT !.buf = Append(s.buf, c)]
    ELSE [st |-> nextSt(c),
          matches |-> IF Len(s.buf) > 0 /\ ~isWsp(s.buf[1])
                      THEN Append(s.matches, s.buf)
                      ELSE s.matches,
          buf |-> <<c>>]

RECURSIVE tokenizeLoop(_, _, _)
tokenizeLoop(code, i, s) ==
    IF i > Len(code) THEN s
    ELSE tokenizeLoop(code, i + 1, tokenizeStep(s, code[i]))

\* the flush after the loop and the eof marker
tokenizeFlush(s) == Append(Append(s.matches, s.buf), <<>>)

tokenize(code) ==
    tokenizeFlush(tokenizeLoop(code, 1,
        [st |-> NilPred, matches |-> <<>>, buf |-> <<>>]))

----------------------------------------------------------------------------
(* The syntax tree and the error.                                          *)

Nil == [kind |-> "nil"]
Var(name) == [kind |-> "Var", Name |-> name]
Apply(operator, operand) == [kind |-> "Apply", Operator |-> operator, Operand |-> operand]
Unary(op, elem) == [kind |-> "Unary", Op |-> op, Elem |-> elem]
Binary(op, left, right) == [kind |-> "Binary", Op |-> op, Left |-> left, Right |-> right]
Equation(left, right) == [kind |-> "Equation", Left |-> left, Right |-> right]

RECURSIVE String(_)
\* e.String() of a tree without missing operands
String(e) ==
    CASE e.kind = "Var" -> e.Name
      [] e.kind = "Apply" ->
            <<"(">> \o String(e.Operator) \o <<" ">> \o String(e.Operand) \o <<")">>
      [] e.kind = "Unary" ->
            <<"(">> \o e.Op \o <<" ">> \o String(e.Elem) \o <<")">>
      [] e.kind = "Binary" ->
            <<"(">> \o String(e.Left) \o <<" ">> \o e.Op \o <<" ">> \o String(e.Right)
            \o <<")">>
      [] e.kind = "Equation" ->
            String(e.Left) \o <<" ", "=", " ">> \o String(e.Right)

NilErr == [nil |-> TRUE]
Unexpected(found, expecting) == [nil |-> FALSE, Found |-> found, Expecting |-> expecting]

RECURSIVE allLetterOrDigit(_, _)
allLetterOrDigit(s, i) ==
    IF i > Len(s) THEN TRUE
    ELSE IF ~IsLetter(s[i]) /\ ~IsDigit(s[i]) THEN FALSE
    ELSE allLetterOrDigit(s, i + 1)

isVar(s) == allLetterOrDigit(s, 1) /\ s # <<>>

isEof(s) == s = <<>>

isOp(s, ops) ==
    IF s = <<>> THEN FALSE
    ELSE \E i \in 1..Len(ops) : ops[i] = s

\* fmt.Sprintf("%#v", s) for a string without quotes or backslashes in it
GoQuote(s) == <<"\"">> \o s \o <<"\"">>

\* s[1:] of a non-empty slice
Rest(s) == SubSeq(s, 2, Len(s))

----------------------------------------------------------------------------
(* What a parse procedure hands back: st = "ret" with the results (lo, e, *)
(* err) of a normal return, st = "panic" for a run-time panic (an index or *)
(* slice expression out of range), st = "deep" for a descent without end.  *)
(* log records what the call did: calls holds one tuple                    *)
(* <<caller level, caller tokens, callee level, callee tokens>> per nested *)
(* call, iters one <<tokens before, tokens after>> per loop iteration,     *)
(* appends one <<len, n>> per append that wrote n elements into the        *)
(* backing array of p.Parens from index len on, and raised the Unexpected  *)
(* values made, in the order they were made.                               *)

NoLog == [calls |-> {}, iters |-> {}, appends |-> {}, raised |-> <<>>]
LogJoin(a, b) ==
    [calls |-> a.calls \cup b.calls,
     iters |-> a.iters \cup b.iters,
     appends |-> a.appends \cup b.appends,
     raised |-> a.raised \o b.raised]
Call(lvl, n, clvl, cn) == [NoLog EXCEPT !.calls = {<<lvl, n, clvl, cn>>}]
Iter(n, n2) == [NoLog EXCEPT !.iters = {<<n, n2>>}]
Raise(err) == [NoLog EXCEPT !.raised = <<err>>]

Ret(lo, e, err, log) == [st |-> "ret", lo |-> lo, e |-> e, err |-> err, log |-> log]
\* a return with a new Unexpected
Fail(lo, e, err, log) == Ret(lo, e, err, LogJoin(log, Raise(err)))
Panic(log) == [st |-> "panic", lo |-> <<>>, e |-> Nil, err |-> NilErr, log |-> log]
Deep(log) == [st |-> "deep", lo |-> <<>>, e |-> Nil, err |-> NilErr, log |-> log]

\* the outcome r of a nested call, with the caller's log before it
WithLog(r, log) == [r EXCEPT !.log = LogJoin(log, r.log)]

\* the level of a procedure in the descent: parseExpr(prec) is prec,
\* parseSingle is one past parseExpr(len(p.Operators))
SingleLevel(g) == Len(g.Operators) + 1

\* the Parser value a method works on: the receiver is passed by value, so
\* the slice headers are copied and the backing arrays are shared
Receiver(q, arr) ==
    [Operators |-> q.Operators,
     Parens |-> SubSeq(arr, 1, q.Parens.len),
     ParensCap |-> q.Parens.cap,
     Brackets |-> q.Brackets,
     AdjacentIsApplication |-> q.AdjacentIsApplication]

\* append(p.Parens, p.Brackets...): the new slice and what was written in
\* place (nothing when the capacity does not suffice: a new array is made)
appendGroups(g) ==
    [groups |-> g.Parens \o g.Brackets,
     log |-> IF Len(g.Brackets) > 0 /\ Len(g.Parens) + Len(g.Brackets) <= g.ParensCap
             THEN [NoLog EXCEPT !.appends = {<<Len(g.Parens), Len(g.Brackets)>>}]
             ELSE NoLog]

\* the options text of parseSingle's last error
RECURSIVE glyphOptions(_, _)
glyphOptions(glyphs, i) ==
    IF i > Len(glyphs) THEN <<>>
    ELSE <<"\"">> \o glyphs[i] \o <<"\"", ",", " ">> \o glyphOptions(glyphs, i + 1)

RECURSIVE prefixOptions(_, _)
prefixOptions(ops, i) ==
    IF i > Len(ops) THEN <<>>
    ELSE (IF ops[i].Type = "Prefix" THEN glyphOptions(ops[i].Glyphs, 1) ELSE <<>>)
         \o prefixOptions(ops, i + 1)

OrAVariable == <<"o", "r", " ", "a", " ", "v", "a", "r", "i", "a", "b", "l", "e">>
EndOfInput == <<"e", "n", "d", "-", "o", "f", "-", "i", "n", "p", "u", "t">>

options(g) ==
    LET o == prefixOptions(g.Operators, 1) IN
    IF o # <<>> THEN o \o OrAVariable ELSE o

\* the first group of groups whose Left is tok (0: none)
RECURSIVE firstGroup(_, _, _)
firstGroup(groups, tok, i) ==
    IF i > Len(groups) THEN 0
    ELSE IF groups[i].Left = tok THEN i
    ELSE firstGroup(groups, tok, i + 1)

----------------------------------------------------------------------------
(* parseSingle and parseExpr.  A procedure is entered with m, the measure  *)
(* <<level, len(tokens)>> of its caller.  A nested call that takes neither *)
(* fewer tokens nor a higher level than its caller, and a loop iteration   *)
(* that starts with as many tokens as the one before it, would run the     *)
(* same steps again without end: the model ends such a descent at once     *)
(* with st = "deep".                                                       *)

\* the measure <<lvl, n>> is below the caller's measure m
Below(lvl, n, m) == n < m[2] \/ (n = m[2] /\ lvl > m[1])

RECURSIVE parseSingle(_, _, _, _)
RECURSIVE parseExpr(_, _, _, _)
RECURSIVE applyLoop(_, _, _, _, _, _)
RECURSIVE infixLeftLoop(_, _, _, _, _, _, _, _, _)
RECURSIVE suffixLoop(_, _, _, _, _, _)

\* what the for loop of parseSingle does with the outcome r of
\* p.parseSingle(lo, true); c is the log up to and with that call
applyOperand(g, n0, lo, e, c, r) ==
    IF r.st # "ret" THEN WithLog(r, c)
    ELSE IF ~r.err.nil THEN Ret(r.lo, e, r.err, LogJoin(c, r.log))
    ELSE applyLoop(g, n0, r.lo, Apply(e, r.e),
                   LogJoin(LogJoin(c, r.log), Iter(Len(lo), Len(r.lo))), Len(lo))

\* the for loop of parseSingle, with the operand parsed as if it were not
\* the operand of an application
applyLoopOperandChains(g, n0, lo, e, log, prev) ==
    IF Len(lo) >= prev THEN Deep(log)
    ELSE
    LET ap == appendGroups(g)
        log1 == LogJoin(log, ap.log)
    IN
    IF lo = <<>> THEN Panic(log1)
    ELSE IF firstGroup(ap.groups, lo[1], 1) # 0
            \/ (isVar(lo[1]) /\ g.AdjacentIsApplication)
    THEN applyOperand(g, n0, lo, e,
                      LogJoin(log1, Call(SingleLevel(g), n0, SingleLevel(g), Len(lo))),
                      parseSingle(g, lo, FALSE, <<SingleLevel(g), n0>>))
    ELSE Ret(lo, e, NilErr, log1)

\* the for loop of parseSingle after a variable: n0 is len(tokens) of the
\* enclosing parseSingle, lo and e are its variables, log what it did so
\* far, prev is len(lo) at the start of the iteration before this one
applyLoop(g, n0, lo, e, log, prev) ==
    IF Len(lo) >= prev THEN Deep(log)
    ELSE
    LET ap == appendGroups(g)
        log1 == LogJoin(log, ap.log)
    IN
    IF lo = <<>> THEN Panic(log1)
    ELSE IF firstGroup(ap.groups, lo[1], 1) # 0
            \/ (isVar(lo[1]) /\ g.AdjacentIsApplication)
    THEN applyOperand(g, n0, lo, e,
                      LogJoin(log1, Call(SingleLevel(g), n0, SingleLevel(g), Len(lo))),
                      parseSingle(g, lo, TRUE, <<SingleLevel(g), n0>>))
    ELSE Ret(lo, e, NilErr, log1)

\* the Parens branch after p.parseExpr(0, tokens[1:]), making a node of
\* the group as the Brackets branch does
parenCloseAddsNode(group, c, r) ==
    IF r.st # "ret" THEN WithLog(r, c)
    ELSE IF r.lo = <<>> THEN Panic(LogJoin(c, r.log))
    ELSE IF r.lo[1] # group.Right
    THEN Fail(r.lo, Nil, Unexpected(r.lo[1], GoQuote(group.Right)), LogJoin(c, r.log))
    ELSE Ret(Rest(r.lo), Unary(group.Left \o group.Right, r.e), r.err, LogJoin(c, r.log))

\* what the Parens branch does with the outcome r of
\* p.parseExpr(0, tokens[1:]); c is the log of that call
parenClose(group, c, r) ==
    IF r.st # "ret" THEN WithLog(r, c)
    ELSE IF r.lo = <<>> THEN Panic(LogJoin(c, r.log))
    ELSE IF r.lo[1] # group.Right
    THEN Fail(r.lo, Nil, Unexpected(r.lo[1], GoQuote(group.Right)), LogJoin(c, r.log))
    ELSE Ret(Rest(r.lo), r.e, r.err, LogJoin(c, r.log))

\* the body of "for _, group := range p.Parens" for the group that matches
parenGroup(g, group, tokens) ==
    parenClose(group, Call(SingleLevel(g), Len(tokens), 0, Len(tokens) - 1),
               parseExpr(g, 0, Rest(tokens), <<SingleLevel(g), Len(tokens)>>))

\* what the Brackets branch does with the outcome r of
\* p.parseExpr(0, tokens[1:]); c is the log of that call
bracketClose(group, c, r) ==
    IF r.st # "ret" THEN WithLog(r, c)
    ELSE IF r.lo = <<>> THEN Panic(LogJoin(c, r.log))
    ELSE IF r.lo[1] # group.Right
    THEN Fail(r.lo, Nil, Unexpected(r.lo[1], GoQuote(group.Right)), LogJoin(c, r.log))
    ELSE Ret(Rest(r.lo), Unary(group.Left \o group.Right, r.e), r.err, LogJoin(c, r.log))

\* the body of "for _, group := range p.Brackets" for the group that matches
bracketGroup(g, group, tokens) ==
    IF Len(tokens) > 1 /\ tokens[2] = group.Right
    THEN Ret(SubSeq(tokens, 3, Len(tokens)), Var(group.Left \o group.Right), NilErr, NoLog)
    ELSE bracketClose(group, Call(SingleLevel(g), Len(tokens), 0, Len(tokens) - 1),
                      parseExpr(g, 0, Rest(tokens), <<SingleLevel(g), Len(tokens)>>))

parseSingle(g, tokens, inApp, m) ==
    IF ~Below(SingleLevel(g), Len(tokens), m) THEN Deep(NoLog)
    ELSE IF tokens = <<>> THEN Panic(NoLog)
    ELSE IF isVar(tokens[1])
    THEN IF inApp
         THEN Ret(Rest(tokens), Var(tokens[1]), NilErr, NoLog)
         ELSE applyLoop(g, Len(tokens), Rest(tokens), Var(tokens[1]), NoLog, Len(tokens))
    ELSE
    LET pi == firstGroup(g.Parens, tokens[1], 1)
        bi == firstGroup(g.Brackets, tokens[1], 1)
    IN IF pi # 0 THEN parenGroup(g, g.Parens[pi], tokens)
       ELSE IF bi # 0 THEN bracketGroup(g, g.Brackets[bi], tokens)
       ELSE Fail(tokens, Nil, Unexpected(tokens[1], options(g)), NoLog)

\* what case Prefix does with the outcome r of p.parseExpr(prec, lo[1:])
\* after the glyph; c is the log of that call
prefixOperand(glyph, c, r) ==
    IF r.st # "ret" THEN WithLog(r, c)
    ELSE IF ~r.err.nil THEN Ret(r.lo, Nil, r.err, LogJoin(c, r.log))
    ELSE Ret(r.lo, Unary(glyph, r.e), NilErr, LogJoin(c, r.log))

\* case Prefix, recursing without consuming the glyph
prefixCaseKeepsGlyph(g, prec, op, tokens) ==
    IF tokens = <<>> THEN Panic(NoLog)
    ELSE IF isOp(tokens[1], op.Glyphs)
    THEN prefixOperand(tokens[1], Call(prec, Len(tokens), prec, Len(tokens)),
                       parseExpr(g, prec, tokens, <<prec, Len(tokens)>>))
    ELSE WithLog(parseExpr(g, prec + 1, tokens, <<prec, Len(tokens)>>),
                 Call(prec, Len(tokens), prec + 1, Len(tokens)))

\* case Prefix
prefixCase(g, prec, op, tokens) ==
    IF tokens = <<>> THEN Panic(NoLog)
    ELSE IF isOp(tokens[1], op.Glyphs)
    THEN prefixOperand(tokens[1], Call(prec, Len(tokens), prec, Len(tokens) - 1),
                       parseExpr(g, prec, Rest(tokens), <<prec, Len(tokens)>>))
    ELSE WithLog(parseExpr(g, prec + 1, tokens, <<prec, Len(tokens)>>),
                 Call(prec, Len(tokens), prec + 1, Len(tokens)))

\* what the for loop of case InfixLeft does with the outcome r of
\* p.parseExpr(prec+1, lo[1:]); c is the log up to and with that call
infixLeftOperand(g, prec, op, n0, lo, e, c, r) ==
    IF r.st # "ret" THEN WithLog(r, c)
    ELSE IF ~r.err.nil THEN Ret(r.lo, Nil, r.err, LogJoin(c, r.log))
    ELSE infixLeftLoop(g, prec, op, n0, r.lo, Binary(lo[1], e, r.e), NilErr,
                       LogJoin(LogJoin(c, r.log), Iter(Len(lo), Len(r.lo))), Len(lo))

\* the for loop of case InfixLeft, with the right operand parsed at the
\* level of the loop
infixLeftLoopSameLevel(g, prec, op, n0, lo, e, err, log, prev) ==
    IF Len(lo) >= prev THEN Deep(log)
    ELSE IF lo = <<>> THEN Panic(log)
    ELSE IF isOp(lo[1], op.Glyphs)
    THEN infixLeftOperand(g, prec, op, n0, lo, e,
                          LogJoin(log, Call(prec, n0, prec, Len(lo) - 1)),
                          parseExpr(g, prec, Rest(lo), <<prec, n0>>))
    ELSE Ret(lo, e, err, log)

\* the for loop of case InfixLeft: lo, e and err are parseExpr's variables,
\* n0 is len(tokens) of the enclosing parseExpr, prev is len(lo) at the
\* start of the iteration before this one
infixLeftLoop(g, prec, op, n0, lo, e, err, log, prev) ==
    IF Len(lo) >= prev THEN Deep(log)
    ELSE IF lo = <<>> THEN Panic(log)
    ELSE IF isOp(lo[1], op.Glyphs)
    THEN infixLeftOperand(g, prec, op, n0, lo, e,
                          LogJoin(log, Call(prec, n0, prec + 1, Len(lo) - 1)),
                          parseExpr(g, prec + 1, Rest(lo), <<prec, n0>>))
    ELSE Ret(lo, e, err, log)

\* what case InfixLeft does with the outcome r of its first
\* p.parseExpr(prec+1, lo): err is not tested before the loop
infixLeftFirst(g, prec, op, n0, c, r) ==
    IF r.st # "ret" THEN WithLog(r, c)
    ELSE infixLeftLoop(g, prec, op, n0, r.lo, r.e, r.err, LogJoin(c, r.log),
                       Len(r.lo) + 1)

\* what case InfixRight does with the outcome r2 of the parseExpr after
\* the glyph; e is the left operand, c2 the log up to and with that call
infixRightOperand(glyph, e, c2, r2) ==
    IF r2.st # "ret" THEN WithLog(r2, c2)
    ELSE IF ~r2.err.nil
    THEN IF r2.lo = <<>> THEN Panic(LogJoin(c2, r2.log))
         ELSE Ret(Rest(r2.lo), Nil, r2.err, LogJoin(c2, r2.log))
    ELSE Ret(r2.lo, Binary(glyph, e, r2.e), NilErr, LogJoin(c2, r2.log))

\* the rest of case InfixRight, with the right operand parsed one level up
infixRightFirstNextLevel(g, prec, op, n0, c, r) ==
    IF r.st # "ret" THEN WithLog(r, c)
    ELSE IF ~r.err.nil THEN Ret(r.lo, Nil, r.err, LogJoin(c, r.log))
    ELSE IF r.lo = <<>> THEN Panic(LogJoin(c, r.log))
    ELSE IF isOp(r.lo[1], op.Glyphs)
    THEN infixRightOperand(r.lo[1], r.e,
                           LogJoin(LogJoin(c, r.log), Call(prec, n0, prec + 1, Len(r.lo) - 1)),
                           parseExpr(g, prec + 1, Rest(r.lo), <<prec, n0>>))
    ELSE Ret(r.lo, r.e, r.err, LogJoin(c, r.log))

\* what case InfixRight does with the outcome r of its first
\* p.parseExpr(prec+1, lo); n0 is len(tokens), c the log of that call
infixRightFirst(g, prec, op, n0, c, r) ==
    IF r.st # "ret" THEN WithLog(r, c)
    ELSE IF ~r.err.nil THEN Ret(r.lo, Nil, r.err, LogJoin(c, r.log))
    ELSE IF r.lo = <<>> THEN Panic(LogJoin(c, r.log))
    ELSE IF isOp(r.lo[1], op.Glyphs)
    THEN infixRightOperand(r.lo[1], r.e,
                           LogJoin(LogJoin(c, r.log), Call(prec, n0, prec, Len(r.lo) - 1)),
                           parseExpr(g, prec, Rest(r.lo), <<prec, n0>>))
    ELSE Ret(r.lo, r.e, r.err, LogJoin(c, r.log))

\* the for loop of case Suffix; prev is len(lo) at the start of the
\* iteration before this one
suffixLoop(g, op, lo, e, log, prev) ==
    IF Len(lo) >= prev THEN Deep(log)
    ELSE IF lo = <<>> THEN Panic(log)
    ELSE IF isOp(lo[1], op.Glyphs)
    THEN suffixLoop(g, op, Rest(lo), Unary(lo[1], e),
                    LogJoin(log, Iter(Len(lo), Len(lo) - 1)), Len(lo))
    ELSE Ret(lo, e, NilErr, log)

\* what case Suffix does with the outcome r of p.parseExpr(prec+1, lo);
\* c is the log of that call
suffixFirst(g, op, c, r) ==
    IF r.st # "ret" THEN WithLog(r, c)
    ELSE IF ~r.err.nil THEN Ret(r.lo, Nil, r.err, LogJoin(c, r.log))
    ELSE suffixLoop(g, op, r.lo, r.e, LogJoin(c, r.log), Len(r.lo) + 1)

\* parseExpr: the cases InfixLeft, InfixRight and Suffix start with
\* p.parseExpr(prec+1, lo) and go on with its outcome
parseExpr(g, prec, tokens, m) ==
    IF ~Below(prec, Len(tokens), m) THEN Deep(NoLog)
    ELSE IF prec >= Len(g.Operators)
    THEN WithLog(parseSingle(g, tokens, FALSE, <<prec, Len(tokens)>>),
                 Call(prec, Len(tokens), SingleLevel(g), Len(tokens)))
    ELSE
    CASE g.Operators[prec + 1].Type = "Prefix" ->
            prefixCase(g, prec, g.Operators[prec + 1], tokens)
      [] g.Operators[prec + 1].Type = "InfixLeft" ->
            infixLeftFirst(g, prec, g.Operators[prec + 1], Len(tokens),
                   Call(prec, Len(tokens), prec + 1, Len(tokens)),
                   parseExpr(g, prec + 1, tokens, <<prec, Len(tokens)>>))
      [] g.Operators[prec + 1].Type = "InfixRight" ->
            infixRightFirst(g, prec, g.Operators[prec + 1], Len(tokens),
                    Call(prec, Len(tokens), prec + 1, Len(tokens)),
                    parseExpr(g, prec + 1, tokens, <<prec, Len(tokens)>>))
      [] g.Operators[prec + 1].Type = "Suffix" ->
            suffixFirst(g, g.Operators[prec + 1], Call(prec, Len(tokens), prec + 1, Len(tokens)),
                parseExpr(g, prec + 1, tokens, <<prec, Len(tokens)>>))
      [] OTHER -> Panic(NoLog)

\* an entry point calls parseExpr(0, ...) with no descent around it
Top(tokens) == <<-1, Len(tokens)>>

\* what parseEqn does with the outcome r2 of p.parseExpr(0, lo[1:]); lhs
\* is the left side and log what the parse of it did
eqnRight(lhs, log, r2) ==
    IF r2.st # "ret" THEN WithLog(r2, log)
    ELSE IF ~r2.err.nil THEN Ret(r2.lo, Nil, r2.err, LogJoin(log, r2.log))
    ELSE Ret(r2.lo, Equation(lhs, r2.e), NilErr, LogJoin(log, r2.log))

\* what parseEqn does with the outcome r of p.parseExpr(0, tokens)
eqnLeft(g, r) ==
    IF r.st # "ret" THEN r
    ELSE IF ~r.err.nil THEN Ret(r.lo, Nil, r.err, r.log)
    ELSE IF r.lo = <<>> THEN Panic(r.log)
    ELSE IF r.lo[1] # <<"=">> THEN Fail(r.lo, Nil, Unexpected(r.lo[1], <<"=">>), r.log)
    ELSE eqnRight(r.e, r.log, parseExpr(g, 0, Rest(r.lo), Top(Rest(r.lo))))

parseEqn(g, tokens) == eqnLeft(g, parseExpr(g, 0, tokens, Top(tokens)))

\* what an entry point hands back: the tree and the error of a normal
\* return, or st = "panic" / "deep"
Result(op, st, tokens, e, err, log) ==
    [op |-> op, st |-> st, tokens |-> tokens, e |-> e, err |-> err, log |-> log]

\* what ParseExpr does with the outcome r of p.parseExpr(0, tokens)
exprResult(tokens, r) ==
    IF r.st # "ret" THEN Result("ParseExpr", r.st, tokens, Nil, NilErr, r.log)
    ELSE IF ~r.err.nil THEN Result("ParseExpr", "ret", tokens, Nil, r.err, r.log)
    ELSE IF r.lo = <<>> THEN Result("ParseExpr", "panic", tokens, Nil, NilErr, r.log)
    ELSE IF Len(r.lo) > 1 \/ r.lo[1] # <<>>
    THEN Result("ParseExpr", "ret", tokens, Nil, Unexpected(r.lo[1], EndOfInput),
                LogJoin(r.log, Raise(Unexpected(r.lo[1], EndOfInput))))
    ELSE Result("ParseExpr", "ret", tokens, r.e, NilErr, r.log)

\* ParseExpr from the tokens on
exprOfTokens(g, tokens) == exprResult(tokens, parseExpr(g, 0, tokens, Top(tokens)))

ParseExpr(q, arr, src) == exprOfTokens(Receiver(q, arr), tokenize(src))

\* what Parse does with the outcome r of p.parseEqn(tokens)
eqnResult(tokens, r) ==
    IF r.st # "ret" THEN Result("Parse", r.st, tokens, Nil, NilErr, r.log)
    ELSE IF r.lo = <<>> THEN Result("Parse", "panic", tokens, Nil, NilErr, r.log)
    ELSE IF (Len(r.lo) > 1 \/ r.lo[1] # <<>>) /\ r.err.nil
    THEN Result("Parse", "ret", tokens, Nil, Unexpected(r.lo[1], EndOfInput),
                LogJoin(r.log, Raise(Unexpected(r.lo[1], EndOfInput))))
    ELSE Result("Parse", "ret", tokens, r.e, r.err, r.log)

\* Parse from the tokens on
eqnOfTokens(g, tokens) == eqnResult(tokens, parseEqn(g, tokens))

Parse(q, arr, src) == eqnOfTokens(Receiver(q, arr), tokenize(src))

\* the backing array of p.Parens after the in-place appends of a call
RECURSIVE writeAt(_, _, _, _)
writeAt(arr, at, xs, i) ==
    IF i > Len(xs) THEN arr
    ELSE writeAt([arr EXCEPT ![at + i] = xs[i]], at, xs, i + 1)

afterAppends(q, arr, log) ==
    IF log.appends = {} THEN arr ELSE writeAt(arr, q.Parens.len, q.Brackets, 1)

----------------------------------------------------------------------------
(* The grammar of the package and the calls.                               *)

Group(left, right) == [Left |-> left, Right |-> right]
Prec(glyphs, type) == [Glyphs |-> glyphs, Type |-> type]

PEMDAS ==
    [Parens |-> <<Group(<<"(">>, <<")">>), Group(<<"[">>, <<"]">>)>>,
     Brackets |-> <<Group(<<"{">>, <<"}">>)>>,
     Operators |-> <<Prec(<< <<",">> >>, "InfixLeft"),
                     Prec(<< <<"+">>, <<"-">> >>, "InfixLeft"),
                     Prec(<< <<"*">>, <<"/">>, <<"\\">> >>, "InfixLeft"),
                     Prec(<< <<"^">> >>, "InfixRight"),
                     Prec(<< <<"-">>, <<"+">> >>, "Prefix"),
                     Prec(<< <<"'">> >>, "Suffix")>>,
     AdjacentIsApplication |-> TRUE]

\* A Parser value with the fields of P: its Parens slice as a header
\* (len, cap) over a backing array with spare elements past len
ParserOf(P, spare, adjacent) ==
    [Operators |-> P.Operators,
     Parens |-> [len |-> Len(P.Parens), cap |-> Len(P.Parens) + spare],
     Brackets |-> P.Brackets,
     AdjacentIsApplication |-> adjacent]

BackingOf(P, spare) == P.Parens \o [i \in 1..spare |-> Group(<<>>, <<>>)]

\* the source texts of at most n runes over the runes of alphabet
Texts(alphabet, n) == UNION {[1..k -> alphabet] : k \in 0..n}

\* the groups a source text opens
Openers(src) == Cardinality({i \in 1..Len(src) : src[i] \in {"(", "[", "{"}})

NoResult == Result("none", "ret", <<>>, Nil, NilErr, NoLog)

MaxLen == 4
MaxNest == 2
MaxSpare == 1

Runes == {"a", "*", "^", "+", "'", "(", ")", "="}

Init ==
    /\ \E spare \in 0..MaxSpare, adjacent \in BOOLEAN :
          /\ p = ParserOf(PEMDAS, spare, adjacent)
          /\ backing = BackingOf(PEMDAS, spare)
    /\ source \in {s \in Texts(Runes, MaxLen) : Openers(s) <= MaxNest}
    /\ args = <<>>
    /\ pc = "ready"
    /\ out = NoResult

\* p.tokenize(source)
DoTokenize ==
    /\ pc = "ready"
    /\ out' = Result("tokenize", "ret", tokenize(source), Nil, NilErr, NoLog)
    /\ pc' = "done"
    /\ UNCHANGED <<p, backing, source, args>>

\* p.ParseExpr(source)
DoParseExpr ==
    /\ pc = "ready"
    /\ out' = ParseExpr(p, backing, source)
    /\ backing' = afterAppends(p, backing, out'.log)
    /\ pc' = "done"
    /\ UNCHANGED <<p, source, args>>

\* p.Parse(source)
DoParse ==
    /\ pc = "ready"
    /\ out' = Parse(p, backing, source)
    /\ backing' = afterAppends(p, backing, out'.log)
    /\ pc' = "done"
    /\ UNCHANGED <<p, source, args>>

\* The tokenizer's classes: a lower-case letter, an upper-case letter, a
\* digit, whitespace and a rune of no class.
TokRunes == {"a", "A", "1", " ", "+"}
MaxTokLen == 5

InitTok ==
    /\ p = ParserOf(PEMDAS, 0, TRUE)
    /\ backing = BackingOf(PEMDAS, 0)
    /\ source \in Texts(TokRunes, MaxTokLen)
    /\ args = <<>>
    /\ pc = "ready"
    /\ out = NoResult

\* Chains: operands joined by infix glyphs, as an expression and as the
\* right side of an equation.
MaxOps == 3
ChainOperands == {"a", "b"}
ChainGlyphs == {"+", "-", "*", "^"}

ChainOf(xs, os) ==
    [i \in 1..(2 * Len(os) + 1) |-> IF i % 2 = 1 THEN xs[(i + 1) \div 2] ELSE os[i \div 2]]

Chains ==
    UNION {{ChainOf(xs, os) : xs \in [1..(k + 1) -> ChainOperands],
                              os \in [1..k -> ChainGlyphs]} : k \in 1..MaxOps}

InitChain ==
    /\ p = ParserOf(PEMDAS, 0, TRUE)
    /\ backing = BackingOf(PEMDAS, 0)
    /\ source \in Chains \cup {<<"a", "=">> \o c : c \in Chains}
    /\ args = <<>>
    /\ pc = "ready"
    /\ out = NoResult

\* Texts of operands and the operators of every level, without groups.
PrecRunes == {"a", "+", "-", "*", "^", "'", "="}
MaxPrecLen == 5

InitPrec ==
    /\ p = ParserOf(PEMDAS, 0, TRUE)
    /\ backing = BackingOf(PEMDAS, 0)
    /\ source \in Texts(PrecRunes, MaxPrecLen)
    /\ args = <<>>
    /\ pc = "ready"
    /\ out = NoResult

\* Texts of adjacent atoms, parsed with the juxtaposition flag set.
AppRunes == {"a", "A", " ", "^", "-", "(", ")"}
MaxAppLen == 5

InitApp ==
    /\ p = ParserOf(PEMDAS, 0, TRUE)
    /\ backing = BackingOf(PEMDAS, 0)
    /\ source \in {s \in Texts(AppRunes, MaxAppLen) : Openers(s) <= MaxNest}
    /\ args = <<>>
    /\ pc = "ready"
    /\ out = NoResult

\* Texts of groups: operands, an operator, and the delimiters of the
\* three groups of PEMDAS, and some longer texts of nested groups.
GroupRunes == {"a", "+", "(", ")", "[", "]", "{", "}"}
MaxGroupLen == 4
GroupTexts ==
    {<<"[", "(", "[", "a", "+", "b", "]", ")", "*", "c", "]">>, <<"{", "(", "[", "a", "+", "b", "]", ")", "*", "c", "}">>, <<"{", "a", ",", "b", ",", "c", "}">>, <<"{", " ", "}">>,
     <<"a", "=", "(", "{", "a", "+", "b", "]">>, <<"a", "*", "(", "b", "+", "c", "]">>, <<"(", "a", "+", "b">>, <<"a", "^", "(", "a", "]", "+", "a">>, <<"a", "^", "(", "a", "]", "+">>}

InitGroup ==
    /\ p = ParserOf(PEMDAS, 0, TRUE)
    /\ backing = BackingOf(PEMDAS, 0)
    /\ source \in {s \in Texts(GroupRunes, MaxGroupLen) : Openers(s) <= MaxNest}
                 \cup GroupTexts
    /\ args = <<>>
    /\ pc = "ready"
    /\ out = NoResult

----------------------------------------------------------------------------
(* The evaluator.  A matrix is a sequence of rows, a row a sequence of     *)
(* numbers.  An argument of Eval is a pointer: its type and what it points *)
(* to.  A function of the evaluator hands back st = "ret" with its value,  *)
(* or st = "panic".                                                        *)

Val(m) == [st |-> "ret", val |-> m]
PanicVal == [st |-> "panic", val |-> <<>>]

Ptr(type, v) == [type |-> type, v |-> v]

readMat(x) ==
    CASE x.type = "*float64" -> Val(<< <<x.v>> >>)
      [] x.type = "*[]float64" -> Val([i \in 1..Len(x.v) |-> <<x.v[i]>>])
      [] x.type = "*[][]float64" -> Val(x.v)
      [] OTHER -> PanicVal

\* writeMat(x, result): the pointer x after the assignment; a nil vector
\* is the vector "nil"
writeMat(x, result) ==
    CASE x.type = "*float64" ->
            IF Len(result) = 1 /\ Len(result[1]) = 1
            THEN Val(Ptr(x.type, result[1][1]))
            ELSE PanicVal
      [] x.type = "*[]float64" ->
            IF x.v # "nil" /\ Len(result) # Len(x.v) THEN PanicVal
            ELSE IF \E i \in 1..Len(result) : Len(result[i]) # 1 THEN PanicVal
            ELSE Val(Ptr(x.type, [i \in 1..Len(result) |-> result[i][1]]))
      [] x.type = "*[][]float64" -> Val(Ptr(x.type, result))
      [] OTHER -> PanicVal

\* addMats: result has len(a) rows of len(a[0]) numbers, and for every j
\* of row a[i] result[i][j] = a[i][j] + b[i][j]; an index out of range
\* (of result[i], of b or of b[i]) is a panic
addMats(a, b) ==
    IF \E i \in 1..Len(a) : \E j \in 1..Len(a[i]) :
          j > Len(a[1]) \/ i > Len(b) \/ j > Len(b[i])
    THEN PanicVal
    ELSE Val([i \in 1..Len(a) |->
                [j \in 1..Len(a[1]) |-> IF j <= Len(a[i]) THEN a[i][j] + b[i][j] ELSE 0]])

dim(x) ==
    IF Len(x) = 0 THEN [st |-> "ret", rows |-> 0, cols |-> 0]
    ELSE IF \E i \in 2..Len(x) : Len(x[1]) # Len(x[i])
    THEN [st |-> "panic", rows |-> Len(x), cols |-> Len(x[1])]
    ELSE [st |-> "ret", rows |-> Len(x), cols |-> Len(x[1])]

transposeMat(a) ==
    IF dim(a).st # "ret" THEN PanicVal
    ELSE Val([j \in 1..dim(a).cols |-> [i \in 1..dim(a).rows |-> a[i][j]]])

RECURSIVE dot(_, _, _, _)
\* result[i][j] after the loop over k from k on
dot(row, b, j, k) ==
    IF k > Len(row) THEN 0 ELSE row[k] * b[k][j] + dot(row, b, j, k + 1)

multMats(a, b) ==
    IF dim(a).st # "ret" \/ dim(b).st # "ret" THEN PanicVal
    ELSE IF dim(a).cols # dim(b).rows THEN PanicVal
    ELSE IF Len(a) > 0 /\ Len(b) = 0 THEN PanicVal
    ELSE Val([i \in 1..Len(a) |-> [j \in 1..Len(b[1]) |-> dot(a[i], b, j, 1)]])

\* the functions of eval applied to the outcomes of the nested evals
addOf(ra, rb) ==
    IF ra.st # "ret" \/ rb.st # "ret" THEN PanicVal ELSE addMats(ra.val, rb.val)
multOf(ra, rb) ==
    IF ra.st # "ret" \/ rb.st # "ret" THEN PanicVal ELSE multMats(ra.val, rb.val)
transposeOf(r) ==
    IF r.st # "ret" THEN PanicVal ELSE transposeMat(r.val)

RECURSIVE eval(_, _)
\* eval(e, vars): vars is a function from names to matrices
eval(e, scope) ==
    CASE e.kind = "Var" ->
            IF e.Name \in DOMAIN scope THEN Val(scope[e.Name]) ELSE PanicVal
      [] e.kind = "Apply" -> multOf(eval(e.Operator, scope), eval(e.Operand, scope))
      [] e.kind = "Unary" ->
            IF e.Op = <<"'">> THEN transposeOf(eval(e.Elem, scope)) ELSE PanicVal
      [] e.kind = "Binary" ->
            IF e.Op = <<"+">> THEN addOf(eval(e.Left, scope), eval(e.Right, scope))
            ELSE IF e.Op = <<"*">> THEN multOf(eval(e.Left, scope), eval(e.Right, scope))
            ELSE PanicVal
      [] OTHER -> PanicVal

RECURSIVE addVars(_, _)
\* addVars of e after an addVars with outcome r
addVarsThen(e, r) == IF r.st # "ret" THEN r ELSE addVars(e, r.val)

\* addVars(e, &vars): the names vars after it, in the order of first use
addVars(e, names) ==
    CASE e.kind = "Var" ->
            IF \E i \in 1..Len(names) : names[i] = e.Name THEN Val(names)
            ELSE Val(Append(names, e.Name))
      [] e.kind = "Apply" -> addVarsThen(e.Operand, addVars(e.Operator, names))
      [] e.kind = "Unary" -> addVars(e.Elem, names)
      [] e.kind = "Binary" -> addVarsThen(e.Right, addVars(e.Left, names))
      [] e.kind = "Equation" -> addVarsThen(e.Right, addVars(e.Left, names))
      [] OTHER -> PanicVal

\* what Eval hands back: a normal return with its error (nil on success)
\* or a panic, and the arguments after it
EvalResult(st, err, as) ==
    [op |-> "Eval", st |-> st, tokens |-> <<>>, e |-> Nil, err |-> err,
     log |-> NoLog, args |-> as]

Errorf(text) == [nil |-> FALSE, text |-> text]

\* the end of Eval: writeMat(args[0], ...) with the outcome w
evalWritten(as, w) ==
    IF w.st # "ret" THEN EvalResult("panic", NilErr, as)
    ELSE EvalResult("ret", NilErr, [as EXCEPT ![1] = w.val])

\* Eval from the outcome r of eval(tree.Right, scope) on
evalValue(as, r) ==
    IF r.st # "ret" THEN EvalResult("panic", NilErr, as)
    ELSE evalWritten(as, writeMat(as[1], r.val))

\* the scope of Eval: vars[i] is bound to readMat(args[i]) for i >= 1
scopeOf(names, as) ==
    [n \in {names[k] : k \in 2..Len(names)} |->
        readMat(as[CHOOSE k \in 2..Len(names) : names[k] = n]).val]

\* Eval from the outcome r of addVars(tree, &vars) on
evalVars(tree, as, r) ==
    IF r.st # "ret" THEN EvalResult("panic", NilErr, as)
    ELSE IF Len(r.val) # Len(as)
    THEN EvalResult("ret", Errorf("got args, hoping for"), as)
    ELSE IF \E k \in 2..Len(as) : readMat(as[k]).st # "ret"
    THEN EvalResult("panic", NilErr, as)
    ELSE evalValue(as, eval(tree.Right, scopeOf(r.val, as)))

\* Eval from the outcome o of PEMDAS.Parse(code) on
evalParsed(as, o) ==
    IF o.st # "ret" THEN EvalResult("panic", NilErr, as)
    ELSE IF ~o.err.nil THEN EvalResult("ret", o.err, as)
    ELSE IF o.e.Left.kind # "Var"
    THEN EvalResult("ret", Errorf("must be of the form y = ..."), as)
    ELSE evalVars(o.e, as, addVars(o.e, <<>>))

Eval(code, as) ==
    evalParsed(as, Parse(ParserOf(PEMDAS, 0, TRUE), BackingOf(PEMDAS, 0), code))

\* Eval(source, args...)
DoEval ==
    /\ pc = "ready"
    /\ out' = Eval(source, args)
    /\ args' = out'.args
    /\ pc' = "done"
    /\ UNCHANGED <<p, backing, source>>

\* Matrices of up to MaxDim rows and columns, and equations that add,
\* multiply, apply and transpose the second and the third argument.
MaxDim == 2
EvalSeeds == {0, 1}
Mat(r, c, k) == [i \in 1..r |-> [j \in 1..c |-> k + i * j]]
Mats == {Mat(r, c, k) : r \in 0..MaxDim, c \in 1..MaxDim, k \in EvalSeeds}
EvalTexts ==
    {<<"c", "=", "a", "+", "b">>, <<"c", "=", "a", "*", "b">>,
     <<"c", "=", "a", " ", "b">>, <<"c", "=", "a", "'", "+", "b">>,
     <<"c", "=", "a", "'", "*", "b">>, <<"c", "=", "a", "+", "b", "*", "a">>}

\* the pointer types of readMat and writeMat, and what a fresh variable of
\* each holds
PtrTypes == {"*float64", "*[]float64", "*[][]float64"}
Zero(t) ==
    CASE t = "*float64" -> 0
      [] t = "*[]float64" -> "nil"
      [] t = "*[][]float64" -> <<>>

InitEval ==
    /\ p = ParserOf(PEMDAS, 0, TRUE)
    /\ backing = BackingOf(PEMDAS, 0)
    /\ source \in EvalTexts
    /\ \E t \in PtrTypes, a \in Mats, b \in Mats :
          args = <<Ptr(t, Zero(t)), Ptr("*[][]float64", a), Ptr("*[][]float64", b)>>
    /\ pc = "ready"
    /\ out = NoResult

----------------------------------------------------------------------------

Next == DoTokenize \/ DoParseExpr \/ DoParse \/ DoEval

Spec == Init /\ [][Next]_vars
SpecTok == InitTok /\ [][Next]_vars
SpecChain == InitChain /\ [][Next]_vars
SpecPrec == InitPrec /\ [][Next]_vars
SpecApp == InitApp /\ [][Next]_vars
SpecGroup == InitGroup /\ [][Next]_vars
SpecEval == InitEval /\ [][Next]_vars

----------------------------------------------------------------------------
(* Properties of the entry points.                                         *)

RECURSIVE hasNil(_)
\* the tree e has a missing operand somewhere
hasNil(e) ==
    CASE e.kind = "nil" -> TRUE
      [] e.kind = "Var" -> FALSE
      [] e.kind = "Apply" -> hasNil(e.Operator) \/ hasNil(e.Operand)
      [] e.kind = "Unary" -> hasNil(e.Elem)
      [] e.kind = "Binary" -> hasNil(e.Left) \/ hasNil(e.Right)
      [] e.kind = "Equation" -> hasNil(e.Left) \/ hasNil(e.Right)

Parsed == pc = "done" /\ out.op \in {"Parse", "ParseExpr"}
Returned == Parsed /\ out.st = "ret"

\* C1: when a step of the descent made an Unexpected, the entry point
\* returns a non-nil error and no tree, and a tree returned with a nil
\* error has no missing operand.
C1_NoPartialTree ==
    Returned =>
        /\ (out.log.raised # <<>> => ~out.err.nil /\ out.e = Nil)
        /\ (out.err.nil => ~hasNil(out.e))

\* C2: Parse and ParseExpr return normally for every source text: no
\* procedure indexes or slices an empty remainder.
C2_NoPanic == Parsed => out.st # "panic"

\* C3: parsing terminates: every nested call of the descent takes fewer
\* tokens, or as many tokens and a higher level, every loop iteration
\* takes at least one token, so that no descent goes on without end.
C3_Terminates ==
    Parsed =>
        /\ out.st # "deep"
        /\ \A c \in out.log.calls : Below(c[3], c[4], <<c[1], c[2]>>)
        /\ \A it \in out.log.iters : it[2] < it[1]

\* a tree was returned by a descent in which a procedure called its own
\* level again on fewer tokens and a loop went round
C3_Witness ==
    /\ Returned /\ out.err.nil /\ ~hasNil(out.e)
    /\ out.log.iters # {}
    /\ \E c \in out.log.calls : c[3] = c[1] /\ c[4] < c[2]

\* C4: a parse leaves the Parser it was given as it was: the backing
\* array of p.Parens holds after the call what it held before it.
C4_SpecificationUnchanged ==
    backing = BackingOf(PEMDAS, p.Parens.cap - p.Parens.len)

----------------------------------------------------------------------------
(* Properties of the tokenizer.                                            *)

Tokenized == pc = "done" /\ out.op = "tokenize"

RECURSIVE TrimRight(_)
\* s without its trailing whitespace
TrimRight(s) ==
    IF s # <<>> /\ isWsp(s[Len(s)]) THEN TrimRight(SubSeq(s, 1, Len(s) - 1)) ELSE s

\* C5: whitespace produces no token: no token holds a whitespace rune, and
\* a text has the tokens of the same text without its trailing whitespace.
C5_WhitespaceNoToken ==
    Tokenized =>
        /\ \A k \in 1..Len(out.tokens) :
              \A i \in 1..Len(out.tokens[k]) : ~isWsp(out.tokens[k][i])
        /\ out.tokens = tokenize(TrimRight(source))

\* C6 as stated: every upper-case letter is a one-character token of its
\* own, whatever is before or after it.
C6_UpperIsOwnToken ==
    Tokenized =>
        \A k \in 1..Len(out.tokens) :
            \A i \in 1..Len(out.tokens[k]) :
                IsUpper(out.tokens[k][i]) => Len(out.tokens[k]) = 1

RECURSIVE Joins(_, _)
\* the rune at i directly follows a lower-case letter, or an upper-case
\* letter that itself does
Joins(src, i) ==
    /\ i > 1
    /\ IsLetter(src[i - 1])
    /\ (~IsUpper(src[i - 1]) \/ Joins(src, i - 1))

\* C6, amended: an upper-case letter is a one-character token of its own
\* unless it directly follows a lower-case letter or an upper-case letter
\* that was itself merged; then it is part of the identifier token that
\* the lower-case letter began.
C6_UpperStartsToken ==
    Tokenized =>
        /\ \A k \in 1..Len(out.tokens) :
              LET t == out.tokens[k] IN
              /\ (t # <<>> /\ IsUpper(t[1]) => Len(t) = 1)
              /\ \A i \in 2..Len(t) :
                    IsUpper(t[i]) => ~IsUpper(t[1]) /\ \A j \in 1..i : IsLetter(t[j])
        /\ Cardinality({k \in 1..Len(out.tokens) :
                           out.tokens[k] # <<>> /\ IsUpper(out.tokens[k][1])})
           = Cardinality({i \in 1..Len(source) : IsUpper(source[i]) /\ ~Joins(source, i)})

\* a text with an upper-case letter that is a token and one that is merged
C6_Witness ==
    /\ Tokenized
    /\ \E k \in 1..Len(out.tokens) : out.tokens[k] = <<"A">>
    /\ \E k \in 1..Len(out.tokens) : out.tokens[k] = <<"a", "A">>

\* the places of a text, counted in runes, where a token ends
Boundaries(tokens) ==
    LET RECURSIVE upto(_)
        upto(k) == IF k = 0 THEN 0 ELSE upto(k - 1) + Len(tokens[k])
    IN {upto(k) : k \in 1..Len(tokens)}

\* C7: a run of adjacent lower-case letters and digits is one token: in a
\* text without whitespace no token ends between two adjacent runes that
\* are each a lower-case letter or a digit.
C7_RunIsOneToken ==
    Tokenized /\ (\A i \in 1..Len(source) : ~isWsp(source[i])) =>
        \A i \in 1..(Len(source) - 1) :
            /\ source[i] \in LowerRunes \cup DigitRunes
            /\ source[i + 1] \in LowerRunes \cup DigitRunes
            => i \notin Boundaries(out.tokens)

----------------------------------------------------------------------------
(* Properties of the trees.                                                *)

\* src is x1 o1 x2 ... o(n-1) xn, n >= 2, every x a one-letter variable and
\* every o a glyph of one and the same level of ops, of type type
IsChainOf(src, ops, type) ==
    /\ Len(src) >= 3 /\ Len(src) % 2 = 1
    /\ \A i \in 1..Len(src) : i % 2 = 1 => src[i] \in LowerRunes
    /\ \E l \in 1..Len(ops) :
          /\ ops[l].Type = type
          /\ \A i \in 1..Len(src) : i % 2 = 0 => isOp(<<src[i]>>, ops[l].Glyphs)

RECURSIVE LeftDeep(_, _)
\* the left-deep tree of the first k operands of the chain src
LeftDeep(src, k) ==
    IF k = 1 THEN Var(<<src[1]>>)
    ELSE Binary(<<src[2 * k - 2]>>, LeftDeep(src, k - 1), Var(<<src[2 * k - 1]>>))

RECURSIVE RightDeep(_, _)
\* the right-deep tree of the operands of the chain src from the k-th on
RightDeep(src, k) ==
    IF 2 * k - 1 = Len(src) THEN Var(<<src[2 * k - 1]>>)
    ELSE Binary(<<src[2 * k]>>, Var(<<src[2 * k - 1]>>), RightDeep(src, k + 1))

\* the expression tree of a call that returned one: the tree of ParseExpr,
\* the right side of the equation of Parse
ExprOf(o) == IF o.op = "Parse" THEN o.e.Right ELSE o.e

\* the expression text of the call: the source of ParseExpr, what follows
\* "a=" in the source of Parse (empty when the source is no such equation)
ExprText(o, src) ==
    IF o.op = "ParseExpr" THEN src
    ELSE IF Len(src) >= 2 /\ SubSeq(src, 1, 2) = <<"a", "=">>
    THEN SubSeq(src, 3, Len(src))
    ELSE <<>>

\* C8: a chain of operands joined by InfixLeft glyphs of one level parses
\* to the left-deep tree, a chain joined by InfixRight glyphs of one level
\* to the right-deep tree, for every chain length.
C8_Associativity ==
    Parsed =>
        LET src == ExprText(out, source) IN
        /\ IsChainOf(src, p.Operators, "InfixLeft") =>
              /\ out.st = "ret" /\ out.err.nil
              /\ ExprOf(out) = LeftDeep(src, (Len(src) + 1) \div 2)
        /\ IsChainOf(src, p.Operators, "InfixRight") =>
              /\ out.st = "ret" /\ out.err.nil
              /\ ExprOf(out) = RightDeep(src, 1)
        /\ (out.op = "Parse" /\ source = <<"a", "=", "a", "+", "b", "-", "a", "+", "b">> =>
              out.st = "ret" /\ out.err.nil
              /\ String(out.e) = <<"a", " ", "=", " ", "(", "(", "(", "a", " ", "+", " ", "b", ")", " ", "-", " ", "a", ")", " ", "+", " ", "b", ")">>)
        /\ (out.op = "ParseExpr" /\ source = <<"a", "^", "b", "^", "a", "^", "b">> =>
              out.st = "ret" /\ out.err.nil
              /\ String(out.e) = <<"(", "a", " ", "^", " ", "(", "b", " ", "^", " ", "(", "a", " ", "^", " ", "b", ")", ")", ")">>)

\* a+b-a+b was parsed to a tree three Binary nodes deep on the left
C8_Witness ==
    /\ Returned /\ out.op = "ParseExpr" /\ out.err.nil
    /\ source = <<"a", "+", "b", "-", "a", "+", "b">>
    /\ out.e.kind = "Binary" /\ out.e.Left.kind = "Binary"
    /\ out.e.Left.Left.kind = "Binary"

IsOperator(e) == e.kind \in {"Unary", "Binary"}

\* the level (from 1) of the table ops that the operator node e is of
OpLevel(ops, e) ==
    CHOOSE l \in 1..Len(ops) :
        /\ isOp(e.Op, ops[l].Glyphs)
        /\ ops[l].Type \in (IF e.kind = "Binary" THEN {"InfixLeft", "InfixRight"}
                            ELSE {"Prefix", "Suffix"})

\* the operand c of an operator node of level l is no operator node of a
\* lower level (strict: nor of level l)
OperandOk(ops, c, l, strict) ==
    IsOperator(c) => IF strict THEN OpLevel(ops, c) > l ELSE OpLevel(ops, c) >= l

RECURSIVE PrecOk(_, _)
\* every operator node of e has operands of levels the table allows
PrecOk(ops, e) ==
    CASE e.kind = "Unary" ->
            OperandOk(ops, e.Elem, OpLevel(ops, e), FALSE) /\ PrecOk(ops, e.Elem)
      [] e.kind = "Binary" ->
            LET l == OpLevel(ops, e) IN
            /\ OperandOk(ops, e.Left, l, ops[l].Type = "InfixRight")
            /\ OperandOk(ops, e.Right, l, ops[l].Type = "InfixLeft")
            /\ PrecOk(ops, e.Left) /\ PrecOk(ops, e.Right)
      [] e.kind = "Apply" -> PrecOk(ops, e.Operator) /\ PrecOk(ops, e.Operand)
      [] e.kind = "Equation" -> PrecOk(ops, e.Left) /\ PrecOk(ops, e.Right)
      [] OTHER -> TRUE

NoGroups(src) == \A i \in 1..Len(src) : src[i] \notin {"(", ")", "[", "]", "{", "}"}

\* C9: table order is precedence order: in a tree returned for a source
\* without groups an operator node that is an operand of an operator node
\* of level l has a level >= l, and > l as the right operand of InfixLeft
\* and the left operand of InfixRight.
C9_TableOrder ==
    Returned /\ out.err.nil /\ NoGroups(source) =>
        /\ PrecOk(p.Operators, out.e)
        /\ (out.op = "ParseExpr" /\ source = <<"a", "+", "a", "*", "a">> =>
              String(out.e) = <<"(", "a", " ", "+", " ", "(", "a", " ", "*", " ", "a", ")", ")">>)
        /\ (out.op = "ParseExpr" /\ source = <<"a", "*", "a", "+", "a">> =>
              String(out.e) = <<"(", "(", "a", " ", "*", " ", "a", ")", " ", "+", " ", "a", ")">>)
        /\ (out.op = "ParseExpr" /\ source = <<"-", "a", "'">> =>
              String(out.e) = <<"(", "-", " ", "(", "'", " ", "a", ")", ")">>)

\* a+a*a was parsed to a + (a * a)
C9_Witness ==
    /\ Returned /\ out.op = "ParseExpr" /\ out.err.nil
    /\ source = <<"a", "+", "a", "*", "a">>
    /\ out.e = Binary(<<"+">>, Var(<<"a">>),
                      Binary(<<"*">>, Var(<<"a">>), Var(<<"a">>)))

RECURSIVE LeftApply(_, _)
\* the left-nested applications of the first k of the tokens toks
LeftApply(toks, k) ==
    IF k = 1 THEN Var(toks[1])
    ELSE Apply(LeftApply(toks, k - 1), Var(toks[k]))

RECURSIVE ApplyOk(_)
\* in e every application has a variable as its operand and a variable or
\* an application as its operator
ApplyOk(e) ==
    CASE e.kind = "Apply" ->
            /\ e.Operand.kind = "Var"
            /\ e.Operator.kind \in {"Var", "Apply"}
            /\ ApplyOk(e.Operator)
      [] e.kind = "Unary" -> ApplyOk(e.Elem)
      [] e.kind = "Binary" -> ApplyOk(e.Left) /\ ApplyOk(e.Right)
      [] e.kind = "Equation" -> ApplyOk(e.Left) /\ ApplyOk(e.Right)
      [] OTHER -> TRUE

\* C10: with the juxtaposition flag set, adjacent atoms parse to
\* left-nested applications, the operand of an application is one atom
\* that starts no chain of its own, and application binds tighter than
\* every operator.
C10_Application ==
    Parsed /\ out.op = "ParseExpr" /\ p.AdjacentIsApplication =>
        LET n == Len(out.tokens) - 1 IN
        /\ (n >= 2 /\ \A k \in 1..n : isVar(out.tokens[k])) =>
              out.st = "ret" /\ out.err.nil /\ out.e = LeftApply(out.tokens, n)
        /\ (out.st = "ret" /\ out.err.nil /\ NoGroups(source)) => ApplyOk(out.e)
        /\ (source = <<"a", " ", "a", " ", "a">> =>
              out.st = "ret" /\ out.err.nil /\ String(out.e) = <<"(", "(", "a", " ", "a", ")", " ", "a", ")">>)
        /\ (source = <<"A", "A", "A">> =>
              out.st = "ret" /\ out.err.nil /\ String(out.e) = <<"(", "(", "A", " ", "A", ")", " ", "A", ")">>)
        /\ (source = <<"a", " ", "A", "^", "A">> =>
              out.st = "ret" /\ out.err.nil /\ String(out.e) = <<"(", "(", "a", " ", "A", ")", " ", "^", " ", "A", ")">>)
        /\ (source = <<"a", "(", "A", ")", "A">> =>
              out.st = "ret" /\ out.err.nil /\ String(out.e) = <<"(", "(", "a", " ", "A", ")", " ", "A", ")">>)
        /\ (source = <<"A", "a", "-", "a">> =>
              out.st = "ret" /\ out.err.nil /\ String(out.e) = <<"(", "(", "A", " ", "a", ")", " ", "-", " ", "a", ")">>)
        /\ (source = <<"-", "A", " ", "A">> =>
              out.st = "ret" /\ out.err.nil /\ String(out.e) = <<"(", "-", " ", "(", "A", " ", "A", ")", ")">>)

\* a a a was parsed to ((a a) a)
C10_Witness ==
    /\ Returned /\ out.op = "ParseExpr" /\ p.AdjacentIsApplication
    /\ source = <<"a", " ", "a", " ", "a">>
    /\ out.e = Apply(Apply(Var(<<"a">>), Var(<<"a">>)), Var(<<"a">>))

----------------------------------------------------------------------------
(* Properties of groups and of errors.                                     *)

\* the source src inside the delimiters of group
Wrapped(group, src) == group.Left \o src \o group.Right

\* ParseExpr of src returns the tree e and a nil error
Yields(q, arr, src, e) ==
    LET o == ParseExpr(q, arr, src) IN o.st = "ret" /\ o.err.nil /\ o.e = e

ParenErrors(q, arr, o) ==
    {o.log.raised[k] : k \in {j \in 1..Len(o.log.raised) :
        \E i \in 1..q.Parens.len : o.log.raised[j].Expecting = GoQuote(arr[i].Right)}}

\* C12: when the interior of a transparent group was followed by a token
\* other than the closer of the group, the entry point returns no tree
\* and an Unexpected with that token as Found and the quoted closer of
\* such a group as Expecting; a=({a+b] fails with Found "]" and
\* Expecting "\")\"".
C12_CloserError ==
    Returned =>
        /\ (ParenErrors(p, backing, out) # {} =>
              /\ ~out.err.nil /\ out.e = Nil
              /\ out.err \in ParenErrors(p, backing, out))
        /\ (out.op = "Parse" /\ source = <<"a", "=", "(", "{", "a", "+", "b", "]">> =>
              out.err = Unexpected(<<"]">>, <<"\"", ")", "\"">>))

\* C13: the error of a failed parse is the first Unexpected made in the
\* descent: when one was made, the entry point returns a non-nil error,
\* and that error has the Found and the Expecting of the first one.
C13_FirstError ==
    Returned /\ out.log.raised # <<>> =>
        /\ ~out.err.nil
        /\ out.err = out.log.raised[1]

----------------------------------------------------------------------------
(* Properties of the evaluator.                                            *)

Rows(m) == Len(m)
Cols(m) == IF Len(m) = 0 THEN 0 ELSE Len(m[1])

\* Eval returned normally and wrote a result
Evaluated == pc = "done" /\ out.op = "Eval" /\ out.st = "ret" /\ out.err.nil

\* C14: adding two matrices whose row or column counts differ never
\* yields a result, and multiplying or applying with a left column count
\* that is not the right row count never yields a result.
C14_ShapeMismatchFails ==
    pc = "done" /\ out.op = "Eval" /\ Len(args) = 3 =>
        /\ (/\ source = <<"c", "=", "a", "+", "b">>
            /\ \/ Rows(args[2].v) # Rows(args[3].v)
               \/ Cols(args[2].v) # Cols(args[3].v))
           => ~Evaluated
        /\ (/\ source \in {<<"c", "=", "a", "*", "b">>, <<"c", "=", "a", " ", "b">>}
            /\ Cols(args[2].v) # Rows(args[3].v))
           => ~Evaluated

====
